---------------------------- MODULE Spec2Model ----------------------------
(***************************************************************************)
(* Fm::BasicFileLauncher (src/core/basicfilelauncher.cpp) as a state       *)
(* machine.  One dispatch is followed from the user's launchFiles call to  *)
(* its return: the classification loop (one step per list element), the    *)
(* folder batch, the MIME-type groups, and the re-dispatch through         *)
(* launchPaths / FileInfoJob.  The virtual hooks (showError, chooseApp,    *)
(* askExecFile) and the GIO/libc calls are the environment: each call      *)
(* takes any of the results it can return.                                 *)
(***************************************************************************)
EXTENDS Integers, Sequences, FiniteSets, TLC

\* Longest FileInfoList the user hands to launchFiles.
MaxLen == 2

(***************************************************************************)
(* Paths and targets.  A FilePath (a GFile) is a URI: a scheme and the     *)
(* path components below it.  A target is the string FileInfo::target(),   *)
(* carried as what g_uri_parse_scheme makes of it and the rest; scheme ""  *)
(* is g_uri_parse_scheme's NULL, and the empty string has no components.   *)
(***************************************************************************)
NoScheme == ""

Uri(s, l) == [scheme |-> s, loc |-> l]

\* FilePath(): the invalid path (a null GFile).
InvalidPath == Uri("", <<>>)

\* target().empty()
EmptyTarget == Uri(NoScheme, <<>>)

\* What paths[0] yields when paths is empty: whatever lies at the vector's start.
GarbagePath == Uri("?", <<>>)

isValid(p) == p # InvalidPath

Local(l) == Uri("file", l)

\* g_uri_parse_scheme(target.c_str())
ParseScheme(t) == t.scheme

\* FilePath::fromUri: g_file_new_for_uri
fromUri(t) == Uri(t.scheme, t.loc)

\* FilePath::fromLocalPath: g_file_new_for_path
fromLocalPath(t) == Local(t.loc)

\* FilePath::fromPathStr: g_file_parse_name takes a URI or a local path
fromPathStr(t) == IF ParseScheme(t) = NoScheme THEN fromLocalPath(t) ELSE fromUri(t)

\* FilePath::localPath(): g_file_get_path, NULL (<<>> here) off the local file system
NoFile == <<>>

localPath(p) == IF p.scheme = "file" THEN p.loc ELSE NoFile

hasUriScheme(p, s) == p.scheme = s

\* What g_path_get_dirname gives for a name without a directory
Dot == <<".">>

\* g_path_get_dirname: the components above the last one
Dirname(f) == IF Len(f) = 0 THEN Dot ELSE SubSeq(f, 1, Len(f) - 1)

(***************************************************************************)
(* File references.  isNative is FileInfo::isNative(): the path is local.  *)
(***************************************************************************)
FI(p, dir, mnt, de, ex, sc, tgt, mime) ==
    [path |-> p, isDir |-> dir, isMountable |-> mnt, isDesktopEntry |-> de,
     isExecutableType |-> ex, isShortcut |-> sc, target |-> tgt, mimeType |-> mime]

isNative(fi) == fi.path.scheme = "file"

DirA == Local(<<"d", "A">>)
DirB == Local(<<"d", "B">>)
ATxt == Local(<<"t", "a.txt">>)
BTxt == Local(<<"t", "b.txt">>)
CPng == Local(<<"t", "c.png">>)
RunSh == Local(<<"x", "run.sh">>)
Vol == Local(<<"m", "vol">>)
AppDesktop == Local(<<"e", "app.desktop">>)
LinkDesktop == Local(<<"e", "link.desktop">>)
ToA == Local(<<"s", "toA">>)
Self == Local(<<"s", "self">>)
Mail == Local(<<"s", "mail">>)
ToTrash == Local(<<"s", "trash">>)
TrashRoot == Uri("trash", <<>>)
ComputerRoot == Uri("computer", <<>>)
MailTo == Uri("mailto", <<"u@h">>)

\* The mounted volume's target
VolTarget == Uri("file", <<"d", "A">>)

\* The paths the user can select
Items == {DirA, DirB, ATxt, BTxt, CPng, RunSh, Vol, AppDesktop, LinkDesktop,
          ToA, Self, Mail, ToTrash}

\* The File Metadata Provider: the FileInfo of a path, given whether the volume is mounted.
\* Several flags may hold of one file; launchFiles alone decides which one counts.
Provider(p, isMounted) ==
    CASE p = DirA -> FI(p, TRUE, FALSE, FALSE, FALSE, FALSE, EmptyTarget, "inode/directory")
      [] p = DirB -> FI(p, TRUE, TRUE, FALSE, TRUE, FALSE, EmptyTarget, "inode/directory")
      [] p = ATxt -> FI(p, FALSE, FALSE, FALSE, FALSE, FALSE, EmptyTarget, "text/plain")
      [] p = BTxt -> FI(p, FALSE, FALSE, FALSE, FALSE, FALSE, EmptyTarget, "text/plain")
      [] p = CPng -> FI(p, FALSE, FALSE, FALSE, FALSE, FALSE, EmptyTarget, "image/png")
      [] p = RunSh -> FI(p, FALSE, FALSE, FALSE, TRUE, TRUE, Uri("file", ATxt.loc),
                         "application/x-shellscript")
      [] p = Vol -> FI(p, FALSE, TRUE, TRUE, FALSE, FALSE,
                       IF isMounted THEN VolTarget ELSE EmptyTarget, "inode/mount-point")
      [] p = AppDesktop -> FI(p, FALSE, FALSE, TRUE, FALSE, FALSE, EmptyTarget,
                              "application/x-desktop")
      [] p = LinkDesktop -> FI(p, FALSE, FALSE, TRUE, TRUE, TRUE, ComputerRoot,
                               "application/x-desktop")
      [] p = ToA -> FI(p, FALSE, FALSE, FALSE, FALSE, TRUE, Uri("file", ATxt.loc), "text/plain")
      [] p = Self -> FI(p, FALSE, FALSE, FALSE, FALSE, TRUE, Uri(NoScheme, Self.loc),
                        "inode/symlink")
      [] p = Mail -> FI(p, FALSE, FALSE, FALSE, FALSE, TRUE, MailTo, "text/plain")
      [] p = ToTrash -> FI(p, FALSE, FALSE, FALSE, FALSE, TRUE, TrashRoot, "inode/directory")
      [] p = TrashRoot -> FI(p, TRUE, FALSE, FALSE, FALSE, FALSE, EmptyTarget, "inode/directory")
      [] p = ComputerRoot -> FI(p, TRUE, FALSE, FALSE, FALSE, FALSE, EmptyTarget,
                                "inode/directory")

\* The paths the provider knows; FileInfoJob drops a path it cannot stat
Known == Items \cup {TrashRoot, ComputerRoot}

RECURSIVE JobFiles(_, _)
\* FileInfoJob::files() for the job's paths
JobFiles(paths, isMounted) ==
    IF paths = <<>> THEN <<>>
    ELSE (IF Head(paths) \in Known THEN <<Provider(Head(paths), isMounted)>> ELSE <<>>)
         \o JobFiles(Tail(paths), isMounted)

\* FileInfoList::paths()
Paths(infos) == [i \in 1..Len(infos) |-> infos[i].path]


(***************************************************************************)
(* Applications, launch records, error reports and handler outcomes.       *)
(* A handler is an operator giving the set of its possible outcomes: the   *)
(* launch-primitive calls it made, the errors it showed, whether it ran    *)
(* into undefined behaviour and the process died, its return value, the    *)
(* path it returned (handleShortcut) and the paths it re-dispatched        *)
(* through launchPaths (launchDesktopEntry).                               *)
(***************************************************************************)
\* A GAppInfo: how it was obtained and what for (a MIME type, a scheme, an entry, a command)
App(how, key) == [how |-> how, key |-> key]

\* A null GAppInfo
NoApp == App("none", Uri("", <<>>))

\* One call of the launch primitive (g_app_info_launch_uris, fm_app_info_launch)
Launch(site, app, paths, ok, term) ==
    [site |-> site, app |-> app, paths |-> paths, ok |-> ok, term |-> term]

\* One call of showError
Err(kind, path) == [kind |-> kind, path |-> path]

Out(launched, errs, crash, ret) ==
    [launched |-> launched, errs |-> errs, crash |-> crash, ret |-> ret,
     path |-> InvalidPath, nest |-> <<>>]

Nothing == Out(<<>>, {}, FALSE, FALSE)

\* BasicFileLauncher::launchWithApp.  g_app_info_launch_uris fails on a null app
\* (g_return_val_if_fail) and may fail on any other; on failure paths[0] is read,
\* which is undefined on an empty list: the process dies or the read yields garbage.
LaunchWithApp(app, paths, site) ==
    (IF app # NoApp THEN {Out(<<Launch(site, app, paths, TRUE, FALSE)>>, {}, FALSE, TRUE)}
     ELSE {})
    \cup
    (IF paths # <<>>
     THEN {Out(<<Launch(site, app, paths, FALSE, FALSE)>>,
               {Err("launch-failed", paths[1])}, FALSE, FALSE)}
     ELSE {Out(<<Launch(site, app, paths, FALSE, FALSE)>>,
               {Err("launch-failed", GarbagePath)}, FALSE, FALSE),
           Out(<<Launch(site, app, paths, FALSE, FALSE)>>, {}, TRUE, FALSE)})

\* BasicFileLauncher::launchWithDefaultApp
LaunchWithDefaultApp(fi) ==
    UNION {IF app # NoApp
           THEN LaunchWithApp(app, Paths(<<fi>>), "default")
           ELSE {Out(<<>>, {Err("no-default-app", fi.path)}, FALSE, FALSE)}
           : app \in {App("default", Uri("mime", <<fi.mimeType>>)), NoApp}}

\* LocalSchemes with the trash, network and computer comparisons left out
LocalSchemesFileOnly == {"file"}

\* The uri schemes handleShortcut resolves to a path
LocalSchemes == {"file", "trash", "network", "computer"}

\* BasicFileLauncher::handleShortcut
HandleShortcut(fi) ==
    LET scheme == ParseScheme(fi.target) IN
    IF scheme # NoScheme
    THEN IF scheme \in LocalSchemes
         THEN {[Nothing EXCEPT !.path = fromUri(fi.target)]}
         ELSE UNION {{[o EXCEPT !.path = InvalidPath, !.ret = FALSE]
                      : o \in LaunchWithApp(app, <<fromUri(fi.target)>>, "scheme")}
                     : app \in {App("scheme", Uri(scheme, <<>>)), NoApp}}
    ELSE {[Nothing EXCEPT !.path = fromLocalPath(fi.target)]}

\* g_path_is_absolute(desktopEntryName)
IsAbsolute(name) == name.scheme = NoScheme /\ name.loc # <<>>

\* BasicFileLauncher::launchDesktopEntry(const char* desktopEntryName, ...)
LaunchDesktopEntryByName(name, paths) ==
    LET found == IF IsAbsolute(name) THEN App("desktop-file", name)
                                     ELSE App("desktop-id", name) IN
    UNION {IF app # NoApp
           THEN LaunchWithApp(app, paths, "desktop")
           ELSE {Out(<<>>, {Err("invalid-desktop-entry", InvalidPath)}, FALSE, FALSE)}
           : app \in {found, NoApp}}

\* ExecAction
ExecActions == {"DIRECT_EXEC", "EXEC_IN_TERMINAL", "OPEN_WITH_DEFAULT_APP", "CANCEL"}

\* quickExec_ ? ExecAction::DIRECT_EXEC : askExecFile(fileInfo)
AskedActions(qe) == IF qe THEN {"DIRECT_EXEC"} ELSE ExecActions

\* !target.empty() ? target.c_str() : filename.get()
EntryName(fi) ==
    IF fi.target # EmptyTarget THEN fi.target ELSE Uri(NoScheme, localPath(fi.path))

\* BasicFileLauncher::launchDesktopEntry(const FileInfoPtr&, ...)
LaunchDesktopEntry(fi, paths, qe) ==
    IF fi.isExecutableType
    THEN UNION {CASE act \in {"EXEC_IN_TERMINAL", "DIRECT_EXEC"} ->
                       IF fi.isShortcut
                       THEN {[o EXCEPT !.nest = IF isValid(o.path) THEN <<o.path>> ELSE <<>>,
                                       !.ret = FALSE]
                             : o \in HandleShortcut(fi)}
                       ELSE LaunchDesktopEntryByName(EntryName(fi), paths)
                  [] act = "OPEN_WITH_DEFAULT_APP" -> LaunchWithDefaultApp(fi)
                  [] OTHER -> {Nothing}
                : act \in AskedActions(qe)}
    ELSE IF isNative(fi) \/ hasUriScheme(fi.path, "menu")
         THEN LaunchDesktopEntryByName(EntryName(fi), paths)
         ELSE {Nothing}

\* RunFromFolder without the chdir back (lines 314-318 left out)
RunFromFolderNoReturn(fi, filename, dir, term) ==
    LET run_path == Dirname(filename) IN
    {[o |-> Out(<<Launch("exec", App("cmdline", Uri(NoScheme, filename)), <<fi.path>>,
                         launched, term)>>,
                (IF moved THEN {} ELSE {Err("chdir-failed", InvalidPath)})
                \cup (IF launched THEN {} ELSE {Err("exec-failed", InvalidPath)}),
                FALSE, TRUE),
      cwd |-> IF moved THEN run_path ELSE dir,
      restoreFailed |-> FALSE]
     : moved \in (IF run_path # Dot THEN BOOLEAN ELSE {FALSE}), launched \in BOOLEAN}

\* The launchExecutable body once the command line's GAppInfo exists (lines 292-319):
\* chdir into the file's folder, launch, chdir back.  Each chdir may fail.
RunFromFolder(fi, filename, dir, term) ==
    LET run_path == Dirname(filename) IN
    {[o |-> Out(<<Launch("exec", App("cmdline", Uri(NoScheme, filename)), <<fi.path>>,
                         launched, term)>>,
                (IF moved THEN {} ELSE {Err("chdir-failed", InvalidPath)})
                \cup (IF launched THEN {} ELSE {Err("exec-failed", InvalidPath)}),
                FALSE, TRUE),
      cwd |-> IF moved /\ ~back THEN run_path ELSE dir,
      restoreFailed |-> moved /\ ~back]
     : moved \in (IF run_path # Dot THEN BOOLEAN ELSE {FALSE}),
       launched \in BOOLEAN, back \in BOOLEAN}

\* BasicFileLauncher::launchExecutable; dir is the working directory at the call
LaunchExecutable(fi, dir, qe) ==
    LET filename == localPath(fi.path)
        idle == [o |-> Nothing, cwd |-> dir, restoreFailed |-> FALSE]
    IN  \* g_file_test(filename, G_FILE_TEST_IS_EXECUTABLE) fails, also on a NULL filename
        {idle}
        \cup
        (IF filename = NoFile THEN {}
         ELSE UNION {CASE act \in {"EXEC_IN_TERMINAL", "DIRECT_EXEC"} ->
                            \* fm_app_info_create_from_commandline gives an app or none
                            {idle} \cup RunFromFolder(fi, filename, dir,
                                                      act = "EXEC_IN_TERMINAL")
                       [] act = "OPEN_WITH_DEFAULT_APP" ->
                            {[o |-> d, cwd |-> dir, restoreFailed |-> FALSE]
                             : d \in LaunchWithDefaultApp(fi)}
                       [] OTHER -> {idle}
                     : act \in AskedActions(qe)})

\* openFolder launching the application once for each folder
OpenFolderPerFolder(folderInfos) ==
    {Out([i \in 1..Len(folderInfos) |->
             Launch("folder", App("chosen", Uri("mime", <<"inode/directory">>)),
                    <<folderInfos[i].path>>, TRUE, FALSE)],
         {}, FALSE, TRUE),
     Out(<<>>, {Err("no-app", InvalidPath)}, FALSE, FALSE)}

\* BasicFileLauncher::openFolder; chooseApp gives an app or none
OpenFolder(folderInfos) ==
    UNION {IF app # NoApp
           THEN LaunchWithApp(app, Paths(folderInfos), "folder")
           ELSE {Out(<<>>, {Err("no-app", InvalidPath)}, FALSE, FALSE)}
           : app \in {App("chosen", Uri("mime", <<"inode/directory">>)), NoApp}}

\* The round launching the application once for each file of the type
LaunchGroupPerFile(mimeType, groupFiles) ==
    {[o |-> Out([i \in 1..Len(groupFiles) |->
                    Launch("group", App("default", Uri("mime", <<mimeType>>)),
                           <<groupFiles[i].path>>, TRUE, FALSE)],
                {}, FALSE, TRUE),
      asked |-> FALSE]}

\* One round of the loop over mimeTypeToFiles (lines 83-94): the default application
\* of the type, else chooseApp, else nothing.  asked tells whether chooseApp was called.
LaunchGroup(mimeType, groupFiles) ==
    {[o |-> d, asked |-> FALSE]
     : d \in LaunchWithApp(App("default", Uri("mime", <<mimeType>>)), Paths(groupFiles), "group")}
    \cup
    UNION {{[o |-> d, asked |-> TRUE]
            : d \in IF app # NoApp THEN LaunchWithApp(app, Paths(groupFiles), "group")
                                   ELSE {Nothing}}
           : app \in {App("chosen", Uri("mime", <<mimeType>>)), NoApp}}

\* The loop with the executable test moved to the front
ClassifyExecutableFirst(fi) ==
    IF fi.isExecutableType THEN "exec"
    ELSE IF fi.isDir THEN "dir"
    ELSE IF fi.isMountable THEN "mountable"
    ELSE IF fi.isDesktopEntry THEN "desktop"
    ELSE IF fi.isShortcut THEN "shortcut"
    ELSE "generic"

\* The branch of the classification loop a file reference takes (lines 33-73)
Classify(fi) ==
    IF fi.isDir THEN "dir"
    ELSE IF fi.isMountable THEN "mountable"
    ELSE IF fi.isDesktopEntry THEN "desktop"
    ELSE IF fi.isExecutableType THEN "exec"
    ELSE IF fi.isShortcut THEN "shortcut"
    ELSE "generic"

\* The mountable branch without the continue of line 43
MountableQueueNoSkip(fi, handledByUser) ==
    IF fi.target = EmptyTarget THEN <<fi.path>> ELSE <<fromPathStr(fi.target)>>

\* The mountable branch queueing the path for the refresh and, falling through, once more
MountableQueueTwice(fi, handledByUser) ==
    IF fi.target = EmptyTarget
    THEN IF ~handledByUser THEN <<>> ELSE <<fi.path, fi.path>>
    ELSE <<fromPathStr(fi.target)>>

\* What the mountable branch appends to pathsToLaunch (lines 37-53): nothing when the
\* target is empty and showError returned false, the own path when it returned true,
\* else the target
MountableQueue(fi, handledByUser) ==
    IF fi.target = EmptyTarget
    THEN IF ~handledByUser THEN <<>> ELSE <<fi.path>>
    ELSE <<fromPathStr(fi.target)>>

(***************************************************************************)
(* The state.  frame holds the locals of the launchFiles call that is      *)
(* running; stack holds the calls suspended inside launchDesktopEntry      *)
(* while the re-dispatch it started runs.  The re-dispatch at the end of   *)
(* launchFiles (lines 96-98) is a tail call: after it nothing is left to   *)
(* do but delete the job and return, so the new call takes the frame's     *)
(* place.  The remaining variables record what the dispatch did.           *)
(***************************************************************************)
VARIABLES input, mounted, quickExec_, cwd, pc, frame, job, stack, ret,
          launches, resolved, errors, execLog, shortcutLog, everHandled, fetched

vars == <<input, mounted, quickExec_, cwd, pc, frame, job, stack, ret,
          launches, resolved, errors, execLog, shortcutLog, everHandled, fetched>>

\* The working directory the file manager runs in
Home == <<"home", "u">>

\* The locals of launchFiles at its entry, with what the call has done so far:
\* handled, one record per element the loop has processed; opened, the lists openFolder
\* was called with; mine, the launch-primitive calls made while the call ran; lookups,
\* the rounds of the loop over mimeTypeToFiles
NewFrame(fileInfos) ==
    [files |-> fileInfos, idx |-> 1, folderInfos |-> <<>>, pathsToLaunch |-> <<>>,
     mimeTypeToFiles |-> [m \in {} |-> <<>>], groupsLeft |-> {},
     handled |-> <<>>, opened |-> <<>>, mine |-> <<>>, lookups |-> <<>>]

BoundedSeq(S, n) == UNION {[1..k -> S] : k \in 0..n}

\* The user selects up to MaxLen files and calls launchFiles; quickExec_ is false
\* after construction and true after setQuickExec(true)
Init ==
    /\ input \in BoundedSeq(Items, MaxLen)
    /\ mounted \in BOOLEAN
    /\ quickExec_ \in BOOLEAN
    /\ cwd = Home
    /\ pc = "classify"
    /\ frame = NewFrame(JobFiles(input, mounted))
    /\ job = <<>>
    /\ stack = <<>>
    /\ ret = FALSE
    /\ launches = <<>>
    /\ resolved = <<>>
    /\ errors = {}
    /\ execLog = {}
    /\ shortcutLog = {}
    /\ everHandled = FALSE
    /\ fetched = {}

InLoop == pc = "classify" /\ frame.idx <= Len(frame.files)

Cur == frame.files[frame.idx]

\* What the loop did with one element
Handled(branch, queued, declined) ==
    [branch |-> branch, queued |-> queued, declined |-> declined]

\* The frame after one round of the loop
Advance(f, h, launched) ==
    [f EXCEPT !.idx = @ + 1, !.handled = Append(@, h), !.mine = @ \o launched]

\* mimeTypeToFiles[name].emplace_back(fileInfo)
Grouped(table, name, fi) ==
    IF name \in DOMAIN table THEN [table EXCEPT ![name] = Append(@, fi)]
    ELSE table @@ (name :> <<fi>>)

\* lines 33-35
ClassifyDir ==
    /\ InLoop /\ Classify(Cur) = "dir"
    /\ frame' = Advance([frame EXCEPT !.folderInfos = Append(@, Cur)],
                        Handled("dir", <<>>, FALSE), <<>>)
    /\ UNCHANGED <<resolved, input, mounted, quickExec_, cwd, pc, job, stack, ret, launches,
                   errors, execLog, shortcutLog, everHandled, fetched>>

\* lines 36-54; showError declines, or handles the error with the volume mounted or not
ClassifyMountable ==
    /\ InLoop /\ Classify(Cur) = "mountable"
    /\ \E r \in (IF Cur.target = EmptyTarget THEN {"declined", "handled", "mounted"}
                 ELSE {"none"}) :
          LET handledByUser == r \in {"handled", "mounted"}
              queued == MountableQueue(Cur, handledByUser)
          IN /\ frame' = Advance([frame EXCEPT !.pathsToLaunch = @ \o queued],
                                 Handled("mountable", queued, r = "declined"), <<>>)
             /\ errors' = IF r = "none" THEN errors
                          ELSE errors \cup {Err("not-mounted", Cur.path)}
             /\ mounted' = (mounted \/ r = "mounted")
             /\ everHandled' = (everHandled \/ handledByUser)
    /\ UNCHANGED <<resolved, input, quickExec_, cwd, pc, job, stack, ret, launches,
                   execLog, shortcutLog, fetched>>

\* lines 55-58, with the launchPaths call of launchDesktopEntry (lines 219-221)
ClassifyDesktopEntry ==
    /\ InLoop /\ Classify(Cur) = "desktop"
    /\ \E o \in LaunchDesktopEntry(Cur, <<>>, quickExec_) :
          LET next == Advance(frame, Handled("desktop", <<>>, FALSE), o.launched) IN
          /\ launches' = launches \o o.launched
          /\ errors' = errors \cup o.errs
          /\ IF o.crash
             THEN pc' = "crashed" /\ UNCHANGED <<frame, job, stack>>
             ELSE IF o.nest # <<>>
             THEN /\ stack' = Append(stack, next)
                  /\ frame' = NewFrame(<<>>)
                  /\ job' = o.nest
                  /\ pc' = "waiting"
             ELSE frame' = next /\ UNCHANGED <<pc, job, stack>>
    /\ UNCHANGED <<resolved, input, mounted, quickExec_, cwd, ret, execLog, shortcutLog,
                   everHandled, fetched>>

\* lines 59-62
ClassifyExecutable ==
    /\ InLoop /\ Classify(Cur) = "exec"
    /\ \E x \in LaunchExecutable(Cur, cwd, quickExec_) :
          /\ launches' = launches \o x.o.launched
          /\ errors' = errors \cup x.o.errs
          /\ cwd' = x.cwd
          /\ execLog' = execLog \cup {[file |-> Cur.path, before |-> cwd, after |-> x.cwd,
                                       restoreFailed |-> x.restoreFailed,
                                       launched |-> x.o.launched, errs |-> x.o.errs]}
          /\ IF x.o.crash
             THEN pc' = "crashed" /\ UNCHANGED frame
             ELSE /\ frame' = Advance(frame, Handled("exec", <<>>, FALSE), x.o.launched)
                  /\ UNCHANGED pc
    /\ UNCHANGED <<resolved, input, mounted, quickExec_, job, stack, ret, shortcutLog,
                   everHandled, fetched>>

\* lines 63-69
ClassifyShortcut ==
    /\ InLoop /\ Classify(Cur) = "shortcut"
    /\ \E o \in HandleShortcut(Cur) :
          LET queued == IF isValid(o.path) THEN <<o.path>> ELSE <<>> IN
          /\ launches' = launches \o o.launched
          /\ errors' = errors \cup o.errs
          /\ shortcutLog' = shortcutLog \cup {[target |-> Cur.target, path |-> o.path,
                                               launched |-> o.launched, queued |-> queued]}
          /\ IF o.crash
             THEN pc' = "crashed" /\ UNCHANGED frame
             ELSE /\ frame' = Advance([frame EXCEPT !.pathsToLaunch = @ \o queued],
                                      Handled("shortcut", queued, FALSE), o.launched)
                  /\ UNCHANGED pc
    /\ UNCHANGED <<resolved, input, mounted, quickExec_, cwd, job, stack, ret, execLog,
                   everHandled, fetched>>

\* lines 70-73
ClassifyGeneric ==
    /\ InLoop /\ Classify(Cur) = "generic"
    /\ frame' = Advance([frame EXCEPT
                            !.mimeTypeToFiles = Grouped(@, Cur.mimeType, Cur)],
                        Handled("generic", <<>>, FALSE), <<>>)
    /\ UNCHANGED <<resolved, input, mounted, quickExec_, cwd, pc, job, stack, ret, launches,
                   errors, execLog, shortcutLog, everHandled, fetched>>

\* lines 76-80; the loop over mimeTypeToFiles starts after it
OpenFolders ==
    /\ pc = "classify" /\ frame.idx > Len(frame.files)
    /\ IF frame.folderInfos # <<>>
       THEN \E o \in OpenFolder(frame.folderInfos) :
               /\ launches' = launches \o o.launched
               /\ errors' = errors \cup o.errs
               /\ frame' = [frame EXCEPT !.mine = @ \o o.launched,
                                         !.opened = Append(@, frame.folderInfos),
                                         !.groupsLeft = DOMAIN frame.mimeTypeToFiles]
               /\ pc' = IF o.crash THEN "crashed" ELSE "groups"
       ELSE /\ frame' = [frame EXCEPT !.groupsLeft = DOMAIN frame.mimeTypeToFiles]
            /\ pc' = "groups"
            /\ UNCHANGED <<launches, errors>>
    /\ UNCHANGED <<resolved, input, mounted, quickExec_, cwd, job, stack, ret, execLog,
                   shortcutLog, everHandled, fetched>>

\* lines 83-94: one round; an unordered_map hands out its keys in any order
LaunchGroups ==
    /\ pc = "groups"
    /\ \E name \in frame.groupsLeft :
          \E g \in LaunchGroup(name, frame.mimeTypeToFiles[name]) :
             /\ launches' = launches \o g.o.launched
             /\ errors' = errors \cup g.o.errs
             /\ frame' = [frame EXCEPT !.mine = @ \o g.o.launched,
                                       !.groupsLeft = @ \ {name},
                                       !.lookups = Append(@, [mimeType |-> name,
                                                              asked |-> g.asked,
                                                              launched |-> g.o.launched])]
             /\ resolved' = Append(resolved, name)
             /\ pc' = IF g.o.crash THEN "crashed" ELSE "groups"
    /\ UNCHANGED <<input, mounted, quickExec_, cwd, job, stack, ret, execLog,
                   shortcutLog, everHandled, fetched>>

AfterGroups == pc = "groups" /\ frame.groupsLeft = {}

\* lines 96-98 and 103-117: launchPaths starts the FileInfoJob and blocks in the event loop
LaunchPaths ==
    /\ AfterGroups /\ frame.pathsToLaunch # <<>>
    /\ job' = frame.pathsToLaunch
    /\ pc' = "waiting"
    /\ UNCHANGED <<resolved, input, mounted, quickExec_, cwd, frame, stack, ret, launches,
                   errors, execLog, shortcutLog, everHandled, fetched>>

\* lines 111-123: the job finishes, the event loop exits, launchFiles runs on its files
JobFinished ==
    /\ pc = "waiting"
    /\ frame' = NewFrame(JobFiles(job, mounted))
    /\ fetched' = fetched \cup {job[i] : i \in 1..Len(job)}
    /\ job' = <<>>
    /\ pc' = "classify"
    /\ UNCHANGED <<resolved, input, mounted, quickExec_, cwd, stack, ret, launches, errors,
                   execLog, shortcutLog, everHandled>>

\* line 100, and lines 125-126 and 222 on the way up: the call returns true; a call
\* suspended in launchDesktopEntry goes on with its loop
ReturnTrue ==
    /\ AfterGroups /\ frame.pathsToLaunch = <<>>
    /\ IF stack = <<>>
       THEN pc' = "done" /\ ret' = TRUE /\ UNCHANGED <<frame, stack>>
       ELSE /\ frame' = stack[Len(stack)]
            /\ stack' = SubSeq(stack, 1, Len(stack) - 1)
            /\ pc' = "classify"
            /\ UNCHANGED ret
    /\ UNCHANGED <<resolved, input, mounted, quickExec_, cwd, job, launches, errors, execLog,
                   shortcutLog, everHandled, fetched>>

Next ==
    \/ ClassifyDir
    \/ ClassifyMountable
    \/ ClassifyDesktopEntry
    \/ ClassifyExecutable
    \/ ClassifyShortcut
    \/ ClassifyGeneric
    \/ OpenFolders
    \/ LaunchGroups
    \/ LaunchPaths
    \/ JobFinished
    \/ ReturnTrue

Spec == Init /\ [][Next]_vars

\* The calling thread runs on, and every FileInfoJob signals that it finished
FairSpec == Spec /\ WF_vars(Next)

(***************************************************************************)
(* The properties.  Frames are the launchFiles calls in progress.          *)
(***************************************************************************)
Frames == {frame} \cup {stack[i] : i \in 1..Len(stack)}

\* The launchFiles call has left its classification loop
PastLoop(f) == f # frame \/ pc \in {"groups", "done"} \/ f.idx > Len(f.files)

\* The launchFiles call has finished its loop over mimeTypeToFiles
PastGroups(f) == f = frame /\ (pc = "done" \/ (pc = "groups" /\ f.groupsLeft = {}))

Indices(seq, site) == {i \in 1..Len(seq) : seq[i].site = site}

InSeq(x, seq) == \E i \in 1..Len(seq) : seq[i] = x

RECURSIVE Flat(_)
Flat(seqs) == IF seqs = <<>> THEN <<>> ELSE Head(seqs) \o Flat(Tail(seqs))

\* The branch the fixed priority directory > mountable > desktop entry > executable >
\* shortcut > generic gives a reference, flag by flag
BranchByPriority(fi, b) ==
    /\ fi.isDir => b = "dir"
    /\ (~fi.isDir /\ fi.isMountable) => b = "mountable"
    /\ (~fi.isDir /\ ~fi.isMountable /\ fi.isDesktopEntry) => b = "desktop"
    /\ (~fi.isDir /\ ~fi.isMountable /\ ~fi.isDesktopEntry /\ fi.isExecutableType)
          => b = "exec"
    /\ (~fi.isDir /\ ~fi.isMountable /\ ~fi.isDesktopEntry /\ ~fi.isExecutableType
        /\ fi.isShortcut) => b = "shortcut"
    /\ (~fi.isDir /\ ~fi.isMountable /\ ~fi.isDesktopEntry /\ ~fi.isExecutableType
        /\ ~fi.isShortcut) => b = "generic"

IsGeneric(fi) ==
    ~fi.isDir /\ ~fi.isMountable /\ ~fi.isDesktopEntry /\ ~fi.isExecutableType
    /\ ~fi.isShortcut

\* C1: in every launchFiles call each reference the loop has passed was handled by
\* exactly one branch, the one the priority directory > mountable > desktop entry >
\* executable > shortcut > generic gives it, and only that branch's effect exists: the
\* folder batch holds exactly the directories, the grouping table exactly the generic
\* files, and a directory is in no executable or desktop-entry launch; once the loop
\* is over every reference has been handled once.
C1_OneBranchByPriority ==
    \A f \in Frames :
       LET done == SubSeq(f.files, 1, Len(f.handled)) IN
       /\ Len(f.handled) = f.idx - 1
       /\ (PastLoop(f) /\ f = frame) => Len(f.handled) = Len(f.files)
       /\ \A i \in 1..Len(f.handled) : BranchByPriority(f.files[i], f.handled[i].branch)
       /\ f.folderInfos = SelectSeq(done, LAMBDA fi : fi.isDir)
       /\ \A name \in DOMAIN f.mimeTypeToFiles :
             f.mimeTypeToFiles[name]
                = SelectSeq(done, LAMBDA fi : IsGeneric(fi) /\ fi.mimeType = name)
       /\ \A i \in 1..Len(f.mine) :
             f.mine[i].site \in {"exec", "desktop", "default", "scheme"}
                => \A k \in 1..Len(f.files) :
                      f.files[k].isDir => ~InSeq(f.files[k].path, f.mine[i].paths)

\* C1's case: a directory that is also executable went to the folder batch only, and
\* a desktop entry that is also a shortcut went to the desktop-entry path.
C1_Witness ==
    /\ pc = "done" /\ input = <<DirB, LinkDesktop>>
    /\ frame.handled[1].branch = "dir" /\ frame.handled[2].branch = "desktop"
    /\ Paths(frame.folderInfos) = <<DirB>>
    /\ Indices(launches, "exec") = {} /\ shortcutLog = {}
    /\ ComputerRoot \in fetched

\* C2 as claimed: over the whole dispatch, re-dispatches included, the generic files of
\* one MIME type are launched in one invocation and the application for the type is
\* looked up once.
C2_OncePerTypeOverDispatch ==
    \A name \in {"text/plain", "image/png", "inode/symlink"} :
       /\ Cardinality({i \in Indices(launches, "group") :
                          launches[i].app.key = Uri("mime", <<name>>)}) <= 1
       /\ Cardinality({i \in 1..Len(resolved) : resolved[i] = name}) <= 1

\* C2, amended: in each launchFiles call, the generic files of one MIME type are
\* launched in at most one invocation, which carries the paths of all of them, and the
\* application for the type is looked up once (chooseApp asked at most once).
C2_OncePerTypePerCall ==
    \A f \in Frames :
       \A name \in DOMAIN f.mimeTypeToFiles :
          LET mine == {i \in Indices(f.mine, "group") :
                          f.mine[i].app.key = Uri("mime", <<name>>)}
              looked == {i \in 1..Len(f.lookups) : f.lookups[i].mimeType = name}
              all == SelectSeq(f.files, LAMBDA fi : IsGeneric(fi) /\ fi.mimeType = name)
          IN /\ Cardinality(mine) <= 1
             /\ Cardinality(looked) <= 1
             /\ Cardinality(mine) <= Cardinality(looked)
             /\ \A i \in mine : f.mine[i].paths = Paths(all)
             /\ PastGroups(f) => Cardinality(looked) = 1

\* C2's case: two files of one type launched together, in one invocation.
C2_Witness ==
    /\ pc = "done" /\ input = <<ATxt, BTxt>>
    /\ Len(launches) = 1 /\ launches[1].paths = <<ATxt, BTxt>> /\ launches[1].ok

\* C3: in each launchFiles call openFolder is called at most once, with all the
\* directories of the call's list; it makes at most one launch, carrying the paths of
\* all of them, and exactly one when chooseApp gave an application (else it reports
\* that there is none).
C3_FoldersInOneLaunch ==
    \A f \in Frames :
       LET dirs == SelectSeq(f.files, LAMBDA fi : fi.isDir)
           mine == Indices(f.mine, "folder")
       IN /\ Len(f.opened) <= 1
          /\ \A i \in 1..Len(f.opened) : f.opened[i] = dirs
          /\ Cardinality(mine) <= Len(f.opened)
          /\ \A i \in mine : f.mine[i].paths = Paths(dirs)
          /\ (f = frame /\ pc \in {"groups", "done"} /\ dirs # <<>>)
                => /\ Len(f.opened) = 1
                   /\ Cardinality(mine) = 1 \/ Err("no-app", InvalidPath) \in errors

\* C3's case: two directories, opened by one launch.
C3_Witness ==
    /\ pc = "done" /\ input = <<DirA, DirB>>
    /\ Len(launches) = 1 /\ launches[1].site = "folder"
    /\ launches[1].paths = <<DirA, DirB>>

\* C4: a mountable with an empty target whose error showError declined queues nothing:
\* pathsToLaunch holds exactly what the other references queued; while showError has
\* handled no such error the mountable's path is in no FileInfoJob and in no launch;
\* and the loop still handles every reference of the call.
C4_DeclinedMountableExcluded ==
    /\ \A f \in Frames :
          /\ \A i \in 1..Len(f.handled) : f.handled[i].declined => f.handled[i].queued = <<>>
          /\ f.pathsToLaunch = Flat([i \in 1..Len(f.handled) |-> f.handled[i].queued])
          /\ ~everHandled => ~InSeq(Vol, f.pathsToLaunch)
    /\ ~everHandled =>
          /\ Vol \notin fetched
          /\ ~InSeq(Vol, job)
          /\ \A i \in 1..Len(launches) : ~InSeq(Vol, launches[i].paths)
    /\ pc \in {"groups", "done"} => Len(frame.handled) = Len(frame.files)

\* C4's case: the declined mountable is skipped and the file after it is launched.
C4_Witness ==
    /\ pc = "done" /\ input = <<Vol, ATxt>>
    /\ frame.handled[1].declined
    /\ Err("not-mounted", Vol) \in errors
    /\ Len(launches) = 1 /\ launches[1].paths = <<ATxt>>

C6_CwdRestored == \A e \in execLog : e.after = e.before

\* C6, amended: after a launchExecutable call the working directory is the one before
\* the call unless the chdir back to it failed; then it is the executable's folder.
C6_CwdRestoredUnlessChdirBackFails ==
    \A e \in execLog :
       /\ ~e.restoreFailed => e.after = e.before
       /\ e.restoreFailed => e.after = Dirname(e.file.loc)

\* C6's case: the executable was run from its folder and the directory restored.
C6_Witness ==
    \E e \in execLog :
       /\ e.launched # <<>> /\ e.launched[1].site = "exec" /\ e.launched[1].ok
       /\ e.errs = {} /\ ~e.restoreFailed /\ e.after = Home

\* How many launches carry the path
Launched(p) == Cardinality({i \in 1..Len(launches) : InSeq(p, launches[i].paths)})

C8_BestEffort ==
    /\ pc # "crashed"
    /\ pc = "done" => ret = TRUE /\ Len(frame.handled) = Len(frame.files)

\* C9: every launchFiles call comes to an end.
C9_Terminates == <>(pc \in {"done", "crashed"})

\* C10: whenever the launch primitive fails in launchWithApp, the list it was given
\* has a first path to report the error against.
C10_FirstPathExists ==
    \A i \in 1..Len(launches) :
       (launches[i].site # "exec" /\ ~launches[i].ok) => launches[i].paths # <<>>

=============================================================================
